---- MODULE Spec2Model ----
(***************************************************************************)
(* Model of the I3G4250D gyroscope driver (src/I3G4250D.c, src/I3G4250D.h). *)
(*                                                                         *)
(* The driver is single threaded.  A public operation is one or more       *)
(* steps; each step is one whole register transaction (I3G4250D_WriteIO or *)
(* I3G4250D_ReadIO) together with the statements around it.  pc is the     *)
(* position inside the running public operation and call holds its         *)
(* arguments, its locals (under their source names) and its return value;  *)
(* at pc = "return" the operation has finished and call shows what the     *)
(* caller gets back.                                                       *)
(*                                                                         *)
(* Units.  The float Sensitivity is kept in hundredths of mdps/digit       *)
(* (8.75 -> 875), and scaled outputs in hundredths as well.  Bias and      *)
(* scale are integers: the calibration ranges drawn below divide exactly,  *)
(* so the float arithmetic of the source is exact on them.                 *)
(***************************************************************************)
EXTENDS Integers, Sequences, FiniteSets, TLC

VARIABLES
    I3G4250D_Sensitivity,   \* static float, in hundredths
    X_Bias, Y_Bias, Z_Bias, \* static floats
    X_Scale, Y_Scale, Z_Scale,
    cs,                     \* level of the chip-select pin: "SET" or "RESET"
    busLog,                 \* HAL calls of the latest transaction of the running
                            \* operation, each with the pin level at the time
    halTimeout,             \* some transfer of that transaction returned HAL_TIMEOUT
    lastCal,                \* history: per axis, the arguments of the latest calibration
    pc,                     \* position in the running public operation
    call                    \* the running / latest public operation

vars == << I3G4250D_Sensitivity, X_Bias, Y_Bias, Z_Bias, X_Scale, Y_Scale, Z_Scale,
           cs, busLog, halTimeout, lastCal, pc, call >>

calVars == << X_Bias, Y_Bias, Z_Bias, X_Scale, Y_Scale, Z_Scale, lastCal >>
busVars == << cs, busLog, halTimeout >>

-----------------------------------------------------------------------------
(* Bounds of the model *)

MaxSize == 8        \* direct ReadIO calls use size 0..MaxSize
MaxTimeOut == 3     \* DataReady is called with msTimeOut 0..MaxTimeOut
MaxAdvance == 2     \* ticks that pass during one status poll: 0..MaxAdvance
MaxPolls == 3       \* polls during which the tick may stand still

-----------------------------------------------------------------------------
(* Register map and constants of I3G4250D.h *)

I3G4250D_CTRL_REG1 == 32
I3G4250D_CTRL_REG2 == 33
I3G4250D_CTRL_REG4 == 35
I3G4250D_STATUS_ADDR == 39
I3G4250D_OUT_X_L_ADDR == 40
I3G4250D_OUT_Y_L_ADDR == 42
I3G4250D_OUT_Z_L_ADDR == 44

I3G4250D_ODR_BW_MEDIUM == 96
I3G4250D_HPF_MODE_NORMAL == 0
I3G4250D_HPCF_MODE_1 == 0
I3G4250D_ENABLE_ALL_AXIS == 15
I3G4250D_ENABLE_X == 9

I3G4250D_SCALE_245 == 0
I3G4250D_SCALE_500 == 64
I3G4250D_SCALE_2000 == 128
I3G4250D_SCALE_2000_2 == 192

I3G4250D_SENSITIVTY_8_75 == 875
I3G4250D_SENSITIVTY_17_50 == 1750
I3G4250D_SENSITIVTY_70 == 7000

StagingSize == 4    \* uint8_t spiBuffer[4] of I3G4250D_ReadIO

-----------------------------------------------------------------------------
(* Fixed-width arithmetic *)

RECURSIVE BitAnd(_, _)
BitAnd(a, b) ==
    IF a = 0 \/ b = 0 THEN 0
    ELSE (IF a % 2 = 1 /\ b % 2 = 1 THEN 1 ELSE 0) + 2 * BitAnd(a \div 2, b \div 2)

RECURSIVE BitOr(_, _)
BitOr(a, b) ==
    IF a = 0 THEN b
    ELSE IF b = 0 THEN a
    ELSE (IF a % 2 = 1 \/ b % 2 = 1 THEN 1 ELSE 0) + 2 * BitOr(a \div 2, b \div 2)

\* conversion of an int in 0..65535 to int16_t
ToInt16(v) == IF v >= 32768 THEN v - 65536 ELSE v

\* a uint32_t is kept as two 16-bit halves, hi * 65536 + lo
U32(n) == [hi |-> n \div 65536, lo |-> n % 65536]
Add32(t, d) ==
    [hi |-> (t.hi + ((t.lo + d) \div 65536)) % 65536, lo |-> (t.lo + d) % 65536]
Sub32(a, b) ==
    LET borrow == IF a.lo < b.lo THEN 1 ELSE 0
    IN [hi |-> (a.hi - b.hi - borrow + 2 * 65536) % 65536,
        lo |-> (a.lo - b.lo + 65536) % 65536]
Lt32(a, b) == a.hi < b.hi \/ (a.hi = b.hi /\ a.lo < b.lo)
ToUint8(t) == t.lo % 256

-----------------------------------------------------------------------------
(* Register transaction layer *)

\* _I3G4250D_CS_ENABLE drives the pin to RESET (active low), _CS_DISABLE to SET
CS_ENABLE == [hal |-> "WritePin", state |-> "RESET"]
CS_DISABLE == [hal |-> "WritePin", state |-> "SET"]
Transmit(data) == [hal |-> "Transmit", data |-> data, size |-> Len(data)]
Receive(size) == [hal |-> "Receive", size |-> size]

IsTransfer(c) == c.hal \in {"Transmit", "Receive"}

Max(S) == CHOOSE m \in S : \A k \in S : k <= m

\* the pin level once the first i HAL calls of a transaction are made
PinAfter(pin0, calls, i) ==
    LET w == {j \in 1..i : calls[j].hal = "WritePin"}
    IN IF w = {} THEN pin0 ELSE calls[Max(w)].state

\* the HAL calls of a transaction, each with the pin level at the time it is made
Trace(pin0, calls) ==
    [i \in 1..Len(calls) |-> [c |-> calls[i], pin |-> PinAfter(pin0, calls, i)]]

\* I3G4250D_WriteIO: st1 and st2 are the statuses the two transmits return
\* (TRUE = HAL_OK, FALSE = HAL_TIMEOUT); the source ignores both.
WriteIO_ReturnOnTimeout(registerAddress, writeData, size, st1, st2) ==
    IF ~st1 THEN << CS_ENABLE, Transmit(<< registerAddress >>) >>
    ELSE IF ~st2
        THEN << CS_ENABLE, Transmit(<< registerAddress >>),
                Transmit(SubSeq(writeData, 1, size)) >>
        ELSE << CS_ENABLE, Transmit(<< registerAddress >>),
                Transmit(SubSeq(writeData, 1, size)), CS_DISABLE >>

WriteIO(registerAddress, writeData, size, st1, st2) ==
    << CS_ENABLE,
       Transmit(<< registerAddress >>),
       Transmit(SubSeq(writeData, 1, size)),
       CS_DISABLE >>

\* I3G4250D_ReadIO.  uninit: the indeterminate initial content of spiBuffer;
\* rx: the bytes the device sends; got: how many of them arrive before the
\* receive returns (got < size: HAL_TIMEOUT, the rest of spiBuffer is stale).
\* Result: the HAL calls, the staging buffer, the bytes copied to the caller,
\* and whether the receive ran past the staging buffer.
ReadIO(registerAddress, size, uninit, rx, got) ==
    LET spiBuffer0 == [uninit EXCEPT ![1] = BitOr(registerAddress, 128)]
        spiBuffer == [i \in 1..StagingSize |->
                         IF i <= got THEN rx[i] ELSE spiBuffer0[i]]
        n == BitAnd(size, 3)
    IN [calls |-> << CS_ENABLE,
                     Transmit(<< spiBuffer0[1] >>),
                     Receive(size),
                     CS_DISABLE >>,
        spiBuffer |-> spiBuffer,
        data |-> [i \in 1..n |-> spiBuffer[i]],
        overrun |-> got > StagingSize]

\* readData[i] = spiBuffer[i] for the bytes copied; the rest of the caller's buffer stays
CopyOut(readData, data) ==
    [i \in 1..Len(readData) |-> IF i <= Len(data) THEN data[i] ELSE readData[i]]

-----------------------------------------------------------------------------
(* Inputs *)

\* indeterminate content of an uninitialized byte / int16_t
UninitBytes == {0, 165}
Uninit16 == {0, -1}
UninitBuffer(g) == << g, g, g, g >>

\* the bytes the device sends to a direct ReadIO call, and the caller's buffer before it
DeviceStream == [i \in 1..(MaxSize + 1) |-> 16 + i]
CallerBuffer(size) == [i \in 1..size |-> 238]

DocumentedScales ==
    {I3G4250D_SCALE_245, I3G4250D_SCALE_500, I3G4250D_SCALE_2000, I3G4250D_SCALE_2000_2}

Configuration(axis, fullScale) ==
    [ENABLED_AXIS |-> axis, ODR_BW_PRESET |-> I3G4250D_ODR_BW_MEDIUM,
     HPF_MODE |-> I3G4250D_HPF_MODE_NORMAL, HPCF_MODE |-> I3G4250D_HPCF_MODE_1,
     FULLSCALE_SELECTION |-> fullScale]

\* The inputs of the transaction-level specification: every documented
\* full-scale selection and two undocumented ones; per axis the samples
\* 0x1234, 100 and -256 as << low, high >>; receives that stop early; status
\* values with no new data, overrun flags only, and X data available; entry
\* ticks below 256, above 255 and just before the 32-bit wrap.
Rich ==
    [writes |-> {<< 15 >>, << 15, 0 >>},
     statuses |-> BOOLEAN,
     sizes |-> 0..MaxSize,
     partial |-> TRUE,
     configs |-> {Configuration(a, f) :
                     a \in {I3G4250D_ENABLE_ALL_AXIS, I3G4250D_ENABLE_X},
                     f \in DocumentedScales \cup {16, 48}},
     samples |-> {<< 52, 18 >>, << 100, 0 >>, << 0, 255 >>},
     timeouts |-> 0..MaxTimeOut,
     ticks |-> {U32(0), U32(255), U32(256), U32(300), [hi |-> 1, lo |-> 0],
                [hi |-> 65535, lo |-> 65534], [hi |-> 65535, lo |-> 65535]},
     statusBytes |-> {0, 240, 1},
     advances |-> 0..MaxAdvance]

\* The inputs of the calibration-level specification: fewer of each, so that
\* every operation runs against every calibration state.
Coarse ==
    [writes |-> {<< 15 >>},
     statuses |-> {TRUE},
     sizes |-> {2},
     partial |-> FALSE,
     configs |-> {Configuration(I3G4250D_ENABLE_ALL_AXIS, f) :
                     f \in {I3G4250D_SCALE_245, I3G4250D_SCALE_500, I3G4250D_SCALE_2000, 16}},
     samples |-> {<< 52, 18 >>, << 100, 0 >>},
     timeouts |-> {0, 1},
     ticks |-> {U32(0), U32(256)},
     statusBytes |-> {0, 1},
     advances |-> {0, 1}]

Gots(in, size) == IF in.partial THEN 0..size ELSE {size}

\* << min, max >> samples handed to the calibration operations (max # min)
CalRanges == { << -500, 500 >>, << 0, 2000 >> }

-----------------------------------------------------------------------------
(* State after construction: the static initializers of I3G4250D.c *)

Init ==
    /\ I3G4250D_Sensitivity = I3G4250D_SENSITIVTY_17_50
    /\ X_Bias = 0 /\ Y_Bias = 0 /\ Z_Bias = 0
    /\ X_Scale = 0 /\ Y_Scale = 0 /\ Z_Scale = 0
    /\ cs \in {"SET", "RESET"}
    /\ busLog = << >>
    /\ halTimeout = FALSE
    /\ lastCal = [X |-> << >>, Y |-> << >>, Z |-> << >>]
    /\ pc = "idle"
    /\ call = [op |-> "none"]

\* one transaction on the bus: the pin, the log and the timeout flag
Transaction(calls, timedOut) ==
    /\ busLog' = Trace(cs, calls)
    /\ cs' = PinAfter(cs, calls, Len(calls))
    /\ halTimeout' = timedOut

\* << register address, data bytes >> a write transaction put on the bus
Written(calls) ==
    LET tx == SelectSeq(calls, LAMBDA c : c.hal = "Transmit")
    IN IF Len(tx) >= 2 THEN << tx[1].data[1], tx[2].data >> ELSE << >>

\* the running operation returns to its caller
Return ==
    /\ pc = "return"
    /\ pc' = "idle"
    /\ call' = [op |-> "none"]
    /\ busLog' = << >>
    /\ halTimeout' = FALSE
    /\ UNCHANGED << I3G4250D_Sensitivity, calVars, cs >>

-----------------------------------------------------------------------------
(* Direct calls of the transaction layer *)

Call_WriteIO(registerAddress, writeData, st1, st2) ==
    /\ pc = "idle"
    /\ LET calls == WriteIO(registerAddress, writeData, Len(writeData), st1, st2)
       IN /\ Transaction(calls, ~(st1 /\ st2))
          /\ call' = [op |-> "WriteIO", written |-> Written(calls)]
    /\ pc' = "return"
    /\ UNCHANGED << I3G4250D_Sensitivity, calVars >>

\* Past an overrun of spiBuffer the locals of ReadIO (size, i, readData) may be
\* clobbered: any prefix of the staged bytes may reach the caller's buffer
\* (k of them).  The function returns void.
Call_ReadIO(registerAddress, size, g, got, k) ==
    /\ pc = "idle"
    /\ LET r == ReadIO(registerAddress, size, UninitBuffer(g), DeviceStream, got)
           data == IF r.overrun THEN SubSeq(r.data, 1, k) ELSE r.data
       IN /\ k <= Len(r.data)
          /\ (~r.overrun => k = Len(r.data))
          /\ Transaction(r.calls, got < size)
          /\ call' = [op |-> "ReadIO", size |-> size, got |-> got,
                      readData |-> CopyOut(CallerBuffer(size), data),
                      copied |-> Len(data), ret |-> "void"]
    /\ pc' = "return"
    /\ UNCHANGED << I3G4250D_Sensitivity, calVars >>

-----------------------------------------------------------------------------
(* I3G4250D_Init *)

CtrlReg1Byte(cfg) == BitOr(BitAnd(cfg.ENABLED_AXIS, 15), BitAnd(cfg.ODR_BW_PRESET, 240))
CtrlReg2Byte(cfg) == BitOr(BitAnd(cfg.HPF_MODE, 48), BitAnd(cfg.HPCF_MODE, 15))
CtrlReg4Byte(cfg) == BitOr(BitAnd(cfg.FULLSCALE_SELECTION, 48), BitAnd(0, 0))

\* the switch on FULLSCALE_SELECTION; it has no default case
FullScaleSwitch_Fallthrough(selection, previous) ==
    CASE selection = I3G4250D_SCALE_245 -> I3G4250D_SENSITIVTY_17_50
      [] selection = I3G4250D_SCALE_500 -> I3G4250D_SENSITIVTY_17_50
      [] selection = I3G4250D_SCALE_2000 -> I3G4250D_SENSITIVTY_70
      [] selection = I3G4250D_SCALE_2000_2 -> I3G4250D_SENSITIVTY_70
      [] OTHER -> previous

FullScaleSwitch(selection, previous) ==
    CASE selection = I3G4250D_SCALE_245 -> I3G4250D_SENSITIVTY_8_75
      [] selection = I3G4250D_SCALE_500 -> I3G4250D_SENSITIVTY_17_50
      [] selection = I3G4250D_SCALE_2000 -> I3G4250D_SENSITIVTY_70
      [] selection = I3G4250D_SCALE_2000_2 -> I3G4250D_SENSITIVTY_70
      [] OTHER -> previous

Init_CtrlReg1(cfg, st1, st2) ==
    /\ pc = "idle"
    /\ LET spiData == CtrlReg1Byte(cfg)
           calls == WriteIO(I3G4250D_CTRL_REG1, << spiData >>, 1, st1, st2)
       IN /\ Transaction(calls, ~(st1 /\ st2))
          /\ call' = [op |-> "Init", accelerometerInit |-> cfg,
                      written |-> << Written(calls) >>]
    /\ pc' = "Init_CtrlReg2"
    /\ UNCHANGED << I3G4250D_Sensitivity, calVars >>

Init_CtrlReg2(st1, st2) ==
    /\ pc = "Init_CtrlReg2"
    /\ LET spiData == CtrlReg2Byte(call.accelerometerInit)
           calls == WriteIO(I3G4250D_CTRL_REG2, << spiData >>, 1, st1, st2)
       IN /\ Transaction(calls, ~(st1 /\ st2))
          /\ call' = [call EXCEPT !.written = Append(@, Written(calls))]
    /\ pc' = "Init_CtrlReg4"
    /\ UNCHANGED << I3G4250D_Sensitivity, calVars >>

Init_CtrlReg4(st1, st2) ==
    /\ pc = "Init_CtrlReg4"
    /\ LET spiData == CtrlReg4Byte(call.accelerometerInit)
           calls == WriteIO(I3G4250D_CTRL_REG4, << spiData >>, 1, st1, st2)
       IN /\ Transaction(calls, ~(st1 /\ st2))
          /\ call' = [call EXCEPT !.written = Append(@, Written(calls))]
    /\ pc' = "Init_FullScale"
    /\ UNCHANGED << I3G4250D_Sensitivity, calVars >>

\* the switch, then the trailing _I3G4250D_CS_DISABLE
Init_FullScale ==
    /\ pc = "Init_FullScale"
    /\ I3G4250D_Sensitivity' =
           FullScaleSwitch(call.accelerometerInit.FULLSCALE_SELECTION, I3G4250D_Sensitivity)
    /\ Transaction(<< CS_DISABLE >>, FALSE)
    /\ pc' = "return"
    /\ UNCHANGED << calVars, call >>

-----------------------------------------------------------------------------
(* I3G4250D_GetRawData, also as the first part of I3G4250D_GetScaledData *)

\* (spiBuffer[1] << 8) + spiBuffer[0], stored into an int16_t field
Assemble(spiBuffer) == ToInt16(spiBuffer[2] * 256 + spiBuffer[1])

\* the 2-byte read of one axis into GetRawData's own spiBuffer[2]
AxisRead(registerAddress, sample, got, g) ==
    LET r == ReadIO(registerAddress, 2, UninitBuffer(g), sample, got)
    IN [calls |-> r.calls, spiBuffer |-> CopyOut(<< g, g >>, r.data)]

\* dev and complete are history: what the device sent per axis, and whether
\* every receive so far delivered both bytes.  tempRawData.y and tempRawData.z
\* are declared and never assigned.
GetRawData_X(entry, sample, got, g) ==
    /\ pc = "idle"
    /\ LET r == AxisRead(I3G4250D_OUT_X_L_ADDR, sample, got, g)
       IN /\ Transaction(r.calls, got < 2)
          /\ call' = [op |-> entry, dev |-> << sample >>, complete |-> (got = 2),
                      tempRawData |-> [x |-> Assemble(r.spiBuffer),
                                       y |-> "indeterminate", z |-> "indeterminate"]]
    /\ pc' = "GetRawData_Y"
    /\ UNCHANGED << I3G4250D_Sensitivity, calVars >>

GetRawData_Y(sample, got, g) ==
    /\ pc = "GetRawData_Y"
    /\ LET r == AxisRead(I3G4250D_OUT_Y_L_ADDR, sample, got, g)
       IN /\ Transaction(r.calls, got < 2)
          /\ call' = [call EXCEPT !.dev = Append(@, sample),
                                  !.complete = @ /\ (got = 2),
                                  !.tempRawData.x = Assemble(r.spiBuffer)]
    /\ pc' = "GetRawData_Z"
    /\ UNCHANGED << I3G4250D_Sensitivity, calVars >>

\* The Z read, then return tempRawData: a caller of GetRawData reads the
\* indeterminate y and z as y0 and z0; GetScaledData never reads them.
GetRawData_Z(sample, got, g, y0, z0) ==
    /\ pc = "GetRawData_Z"
    /\ LET r == AxisRead(I3G4250D_OUT_Z_L_ADDR, sample, got, g)
           t == [call.tempRawData EXCEPT !.x = Assemble(r.spiBuffer)]
       IN /\ Transaction(r.calls, got < 2)
          /\ IF call.op = "GetScaledData"
                THEN /\ call' = [call EXCEPT !.dev = Append(@, sample),
                                             !.complete = @ /\ (got = 2),
                                             !.tempRawData = t]
                     /\ pc' = "GetScaledData_Scale"
                ELSE /\ call' = [op |-> call.op, dev |-> Append(call.dev, sample),
                                 complete |-> (call.complete /\ got = 2),
                                 ret |-> [x |-> t.x, y |-> y0, z |-> z0]]
                     /\ pc' = "return"
    /\ UNCHANGED << I3G4250D_Sensitivity, calVars >>

-----------------------------------------------------------------------------
(* I3G4250D_GetScaledData: the scaling after GetRawData has returned *)

\* (raw * Sensitivity * scale) + 0.0f - bias, in hundredths
Scaled(raw, scale, bias) == (raw * I3G4250D_Sensitivity * scale) + 0 - 100 * bias

GetScaledData_Scale ==
    /\ pc = "GetScaledData_Scale"
    /\ call' = [op |-> call.op, dev |-> call.dev, complete |-> call.complete,
                ret |-> [x |-> Scaled(call.tempRawData.x, X_Scale, X_Bias),
                         y |-> Scaled(call.tempRawData.x, Y_Scale, Y_Bias),
                         z |-> Scaled(call.tempRawData.x, Z_Scale, Z_Bias)]]
    /\ pc' = "return"
    /\ UNCHANGED << I3G4250D_Sensitivity, calVars, busVars >>

-----------------------------------------------------------------------------
(* I3G4250D_DataReady *)

\* the while condition: (Acc_status & 0x07)==0 && (HAL_GetTick() - startTick < msTimeOut),
\* with now the uint32_t tick, startTick the uint8_t local promoted to int
KeepPolling_Inclusive(Acc_status, now, startTick, msTimeOut) ==
    /\ BitAnd(Acc_status, 7) = 0
    /\ ~Lt32(U32(msTimeOut), Sub32(now, U32(startTick)))

KeepPolling(Acc_status, now, startTick, msTimeOut) ==
    /\ BitAnd(Acc_status, 7) = 0
    /\ Lt32(Sub32(now, U32(startTick)), U32(msTimeOut))

\* uint8_t startTick = HAL_GetTick(): t0 is the tick at entry.
\* t0, elapsed, polls and clear are history: the tick at entry, the ticks
\* since, the status polls made, and whether every poll so far delivered a
\* status byte with the low 3 bits clear.
DataReady_Begin(msTimeOut, t0) ==
    /\ pc = "idle"
    /\ call' = [op |-> "DataReady", msTimeOut |-> msTimeOut, t0 |-> t0, tick |-> t0,
                startTick |-> ToUint8(t0), elapsed |-> 0, polls |-> 0, clear |-> TRUE]
    /\ pc' = "DataReady_Poll"
    /\ UNCHANGED << I3G4250D_Sensitivity, calVars, busVars >>

\* one iteration of the do-while: the status read, then the condition with the
\* tick d later; on exit, the return value
DataReady_Poll(status, got, g, d) ==
    /\ pc = "DataReady_Poll"
    /\ (d = 0 => call.polls < MaxPolls)
    /\ LET r == ReadIO(I3G4250D_STATUS_ADDR, 1, UninitBuffer(g), << status >>, got)
           Acc_status == CopyOut(<< g >>, r.data)[1]
           now == Add32(call.tick, d)
           c == [call EXCEPT !.tick = now, !.elapsed = @ + d, !.polls = @ + 1,
                             !.clear = @ /\ got = 1 /\ BitAnd(status, 7) = 0]
       IN /\ Transaction(r.calls, got < 1)
          /\ IF KeepPolling(Acc_status, now, call.startTick, call.msTimeOut)
                THEN /\ call' = c
                     /\ pc' = "DataReady_Poll"
                ELSE /\ call' = [op |-> "DataReady", msTimeOut |-> c.msTimeOut,
                                 t0 |-> c.t0, elapsed |-> c.elapsed, polls |-> c.polls,
                                 clear |-> c.clear, Acc_status |-> Acc_status,
                                 ret |-> (BitAnd(Acc_status, 7) # 0)]
                     /\ pc' = "return"
    /\ UNCHANGED << I3G4250D_Sensitivity, calVars >>

-----------------------------------------------------------------------------
(* Calibration *)

Bias(min, max) == (max + min) \div 2
Scale(min, max) == (2 * 1000) \div (max - min)

X_Calibrate_AlsoY(x_min, x_max) ==
    /\ pc = "idle"
    /\ X_Bias' = Bias(x_min, x_max)
    /\ X_Scale' = Scale(x_min, x_max)
    /\ Y_Scale' = Scale(x_min, x_max)
    /\ lastCal' = [lastCal EXCEPT !.X = << x_min, x_max >>]
    /\ call' = [op |-> "X_Calibrate"]
    /\ pc' = "return"
    /\ UNCHANGED << I3G4250D_Sensitivity, Y_Bias, Z_Bias, Z_Scale, busVars >>

X_Calibrate(x_min, x_max) ==
    /\ pc = "idle"
    /\ X_Bias' = Bias(x_min, x_max)
    /\ X_Scale' = Scale(x_min, x_max)
    /\ lastCal' = [lastCal EXCEPT !.X = << x_min, x_max >>]
    /\ call' = [op |-> "X_Calibrate"]
    /\ pc' = "return"
    /\ UNCHANGED << I3G4250D_Sensitivity, Y_Bias, Z_Bias, Y_Scale, Z_Scale, busVars >>

Y_Calibrate(y_min, y_max) ==
    /\ pc = "idle"
    /\ Y_Bias' = Bias(y_min, y_max)
    /\ Y_Scale' = Scale(y_min, y_max)
    /\ lastCal' = [lastCal EXCEPT !.Y = << y_min, y_max >>]
    /\ call' = [op |-> "Y_Calibrate"]
    /\ pc' = "return"
    /\ UNCHANGED << I3G4250D_Sensitivity, X_Bias, Z_Bias, X_Scale, Z_Scale, busVars >>

Z_Calibrate(z_min, z_max) ==
    /\ pc = "idle"
    /\ Z_Bias' = Bias(z_min, z_max)
    /\ Z_Scale' = Scale(z_min, z_max)
    /\ lastCal' = [lastCal EXCEPT !.Z = << z_min, z_max >>]
    /\ call' = [op |-> "Z_Calibrate"]
    /\ pc' = "return"
    /\ UNCHANGED << I3G4250D_Sensitivity, X_Bias, Y_Bias, X_Scale, Y_Scale, busVars >>

-----------------------------------------------------------------------------
(* The driver *)

\* the operations that use the bus, with their inputs drawn from in
BusOps(in) ==
    \/ \E w \in in.writes, st1, st2 \in in.statuses :
           Call_WriteIO(I3G4250D_CTRL_REG1, w, st1, st2)
    \/ \E size \in in.sizes, g \in UninitBytes, k \in 0..3 :
           \E got \in Gots(in, size) : Call_ReadIO(I3G4250D_OUT_X_L_ADDR, size, g, got, k)
    \/ \E cfg \in in.configs, st1, st2 \in in.statuses : Init_CtrlReg1(cfg, st1, st2)
    \/ \E st1, st2 \in in.statuses : Init_CtrlReg2(st1, st2)
    \/ \E st1, st2 \in in.statuses : Init_CtrlReg4(st1, st2)
    \/ Init_FullScale
    \/ \E entry \in {"GetRawData", "GetScaledData"}, sample \in in.samples,
          got \in Gots(in, 2), g \in UninitBytes :
           GetRawData_X(entry, sample, got, g)
    \/ \E sample \in in.samples, got \in Gots(in, 2), g \in UninitBytes :
           GetRawData_Y(sample, got, g)
    \/ \E sample \in in.samples, got \in Gots(in, 2), g \in UninitBytes, y0, z0 \in Uninit16 :
           GetRawData_Z(sample, got, g, y0, z0)
    \/ GetScaledData_Scale
    \/ \E msTimeOut \in in.timeouts, t0 \in in.ticks : DataReady_Begin(msTimeOut, t0)
    \/ \E status \in in.statusBytes, got \in Gots(in, 1), g \in UninitBytes,
          d \in in.advances :
           DataReady_Poll(status, got, g, d)
    \/ Return

Calibrations ==
    \/ \E r \in CalRanges : X_Calibrate(r[1], r[2])
    \/ \E r \in CalRanges : Y_Calibrate(r[1], r[2])
    \/ \E r \in CalRanges : Z_Calibrate(r[1], r[2])

\* Transaction level: any sequence of the operations that use the bus, with
\* the calibration state as constructed.
Next == BusOps(Rich)

Spec == Init /\ [][Next]_vars

\* Calibration level: any sequence of all public operations.
NextCal == BusOps(Coarse) \/ Calibrations

SpecCal == Init /\ [][NextCal]_vars

-----------------------------------------------------------------------------
(* Properties *)

Returned(op) == pc = "return" /\ call.op = op

\* (high << 8) | low as a signed 16-bit value
Combine(low, high) == ToInt16(BitOr(high * 256, low))

\* C1: when Init returns for a configuration whose full-scale selection is
\* one of the four documented constants, the active Sensitivity is 8.75 for
\* 245, 17.50 for 500 and 70 for both 2000 selections, whatever it was before.
C1_InitSetsSensitivity ==
    Returned("Init") =>
        LET sel == call.accelerometerInit.FULLSCALE_SELECTION
        IN /\ (sel = I3G4250D_SCALE_245 => I3G4250D_Sensitivity = 875)
           /\ (sel = I3G4250D_SCALE_500 => I3G4250D_Sensitivity = 1750)
           /\ (sel = I3G4250D_SCALE_2000 => I3G4250D_Sensitivity = 7000)
           /\ (sel = I3G4250D_SCALE_2000_2 => I3G4250D_Sensitivity = 7000)

\* Init has returned for the 245 selection and changed the Sensitivity to 8.75
C1_Witness ==
    /\ Returned("Init")
    /\ call.accelerometerInit.FULLSCALE_SELECTION = I3G4250D_SCALE_245
    /\ I3G4250D_Sensitivity = 875

\* C2: when GetRawData returns after three complete reads, each field of the
\* result holds the value assembled from the bytes the device sent for that
\* axis: x from the X read, y from the Y read, z from the Z read.
C2_EachAxisInOwnField ==
    (Returned("GetRawData") /\ call.complete) =>
        /\ call.ret.x = Combine(call.dev[1][1], call.dev[1][2])
        /\ call.ret.y = Combine(call.dev[2][1], call.dev[2][2])
        /\ call.ret.z = Combine(call.dev[3][1], call.dev[3][2])

\* C3: a ReadIO call with size 5 either copies all 5 bytes to the caller's
\* buffer or reports a buffer-size-mismatch error.
C3_NoSilentTruncation ==
    (Returned("ReadIO") /\ call.size = 5) =>
        (call.copied = 5 \/ call.ret = "BufferSizeMismatch")

\* C4: DataReady never returns false while fewer than msTimeOut ticks have
\* passed since it was entered, whatever the tick at entry.
C4_NoEarlyTimeout ==
    (Returned("DataReady") /\ call.ret = FALSE) => call.elapsed >= call.msTimeOut

\* C5: DataReady(0), while every status poll delivers a status byte with the
\* low 3 bits clear, makes one status poll and then has returned false,
\* whatever the tick at entry and whether or not the tick wraps meanwhile.
C5_ZeroTimeoutReturnsFalse ==
    (call.op = "DataReady" /\ call.msTimeOut = 0 /\ call.clear /\ call.polls >= 1) =>
        (pc = "return" /\ call.polls = 1 /\ call.ret = FALSE)

\* DataReady(0) entered at tick 2^32 - 1 has returned false after the tick wrapped
C5_Witness ==
    /\ Returned("DataReady")
    /\ call.msTimeOut = 0 /\ call.clear
    /\ call.t0 = [hi |-> 65535, lo |-> 65535] /\ call.elapsed >= 1
    /\ call.ret = FALSE

\* C6: in every transaction, chip-select is asserted (pin RESET) by the first
\* HAL call, every transmit and receive is made with it asserted, the last
\* HAL call deasserts it, and it is deasserted (pin SET) once the transaction
\* has ended, also when a transfer timed out.
C6_ChipSelectFraming ==
    /\ \A i \in 1..Len(busLog) : IsTransfer(busLog[i].c) => busLog[i].pin = "RESET"
    /\ (\E i \in 1..Len(busLog) : IsTransfer(busLog[i].c)) =>
           /\ busLog[1].c = CS_ENABLE
           /\ busLog[Len(busLog)].c = CS_DISABLE
    /\ busLog # << >> => cs = "SET"

\* a read transaction whose receive timed out has ended with chip-select deasserted
C6_Witness ==
    /\ halTimeout
    /\ \E i \in 1..Len(busLog) : busLog[i].c.hal = "Receive" /\ busLog[i].pin = "RESET"
    /\ cs = "SET"

\* C7: when GetScaledData returns after three complete reads, each axis of the
\* result is that axis's own raw count times Sensitivity times that axis's
\* scale, minus that axis's bias.
C7_ScaledFromOwnAxis ==
    (Returned("GetScaledData") /\ call.complete) =>
        /\ call.ret.x = Combine(call.dev[1][1], call.dev[1][2]) * I3G4250D_Sensitivity * X_Scale
                            - 100 * X_Bias
        /\ call.ret.y = Combine(call.dev[2][1], call.dev[2][2]) * I3G4250D_Sensitivity * Y_Scale
                            - 100 * Y_Bias
        /\ call.ret.z = Combine(call.dev[3][1], call.dev[3][2]) * I3G4250D_Sensitivity * Z_Scale
                            - 100 * Z_Bias

\* the (bias, scale) pair the latest calibration r = << min, max >> of an axis
\* sets, or (0, 0) when the axis was never calibrated
CalibratedAs(r, bias, scale) ==
    IF r = << >> THEN bias = 0 /\ scale = 0
    ELSE 2 * bias = r[2] + r[1] /\ scale * (r[2] - r[1]) = 2000

CalibrationOps == {"X_Calibrate", "Y_Calibrate", "Z_Calibrate"}

\* C8: at all times each axis's (bias, scale) is what the latest calibration
\* of that axis set, or (0, 0) if there was none; a calibration step leaves
\* the other two axes and the Sensitivity unchanged, and a step of any other
\* operation leaves every bias and scale unchanged.
C8_CalibrationFrame ==
    /\ [](/\ CalibratedAs(lastCal.X, X_Bias, X_Scale)
          /\ CalibratedAs(lastCal.Y, Y_Bias, Y_Scale)
          /\ CalibratedAs(lastCal.Z, Z_Bias, Z_Scale))
    /\ [][/\ (call'.op = "X_Calibrate" /\ pc' = "return") =>
                 UNCHANGED << Y_Bias, Y_Scale, Z_Bias, Z_Scale, I3G4250D_Sensitivity >>
          /\ (call'.op = "Y_Calibrate" /\ pc' = "return") =>
                 UNCHANGED << X_Bias, X_Scale, Z_Bias, Z_Scale, I3G4250D_Sensitivity >>
          /\ (call'.op = "Z_Calibrate" /\ pc' = "return") =>
                 UNCHANGED << X_Bias, X_Scale, Y_Bias, Y_Scale, I3G4250D_Sensitivity >>
          /\ (call'.op \notin CalibrationOps) =>
                 UNCHANGED << X_Bias, X_Scale, Y_Bias, Y_Scale, Z_Bias, Z_Scale >>]_vars

\* X was calibrated twice, Y once and Z never; Init has since changed the
\* Sensitivity and GetScaledData has run
C8_Witness ==
    /\ Returned("GetScaledData")
    /\ lastCal.X = << 0, 2000 >> /\ X_Bias = 1000 /\ X_Scale = 1
    /\ lastCal.Y = << -500, 500 >> /\ Y_Bias = 0 /\ Y_Scale = 2
    /\ lastCal.Z = << >> /\ Z_Bias = 0 /\ Z_Scale = 0
    /\ I3G4250D_Sensitivity = 7000

\* C9: when Init returns for a documented full-scale selection, no other
\* documented selection that results in a different Sensitivity writes the
\* control-register-4 byte this call wrote.
C9_FullScaleBitsConsistent ==
    (Returned("Init") /\ call.accelerometerInit.FULLSCALE_SELECTION \in DocumentedScales) =>
        \A other \in DocumentedScales :
            FullScaleSwitch(other, I3G4250D_Sensitivity) # I3G4250D_Sensitivity =>
                << CtrlReg4Byte(Configuration(I3G4250D_ENABLE_ALL_AXIS, other)) >>
                    # call.written[3][2]

\* C10: no receive asks the transport for more bytes than the staging buffer holds.
C10_ReceiveFitsStaging ==
    \A i \in 1..Len(busLog) :
        busLog[i].c.hal = "Receive" => busLog[i].c.size <= StagingSize

====
